---------------------------- MODULE Spec2Model ----------------------------
(***************************************************************************)
(* Expense Tracker (src/EXPENSE_TRACKER.py): the SQLite store of class DB  *)
(* (users, categories, expenses), the login window and the main window's   *)
(* handlers.                                                               *)
(*                                                                         *)
(* Text is a sequence of one-character strings, compared the way SQLite's  *)
(* BINARY collation and Python compare it: code point by code point.       *)
(* Amounts are whole numbers of currency units: these are REAL values that *)
(* SQLite's SUM adds without rounding.                                     *)
(***************************************************************************)
EXTENDS Integers, Sequences, FiniteSets, TLC

VARIABLES
    users,        \* table users: rows [id, username, password_hash, budget]
    categories,   \* table categories: rows [id, name, user_id]
    expenses,     \* table expenses: rows [id, user_id, amount, category, description, date]
    expense_seq,  \* AUTOINCREMENT counter of expenses: the largest id ever given
    launches,     \* how many times the program was started on this store
    phase,        \* "login": LoginWindow is shown; "main": MainApp is shown
    user_id,      \* MainApp.user_id (0 while no MainApp exists)
    year_var,     \* MainApp.year_var
    month_var,    \* MainApp.month_var
    tree,         \* MainApp.tree: the id column of its rows, top to bottom
    selection,    \* MainApp.tree.selection(): the id of the selected row, 0 when none
    budget_label, \* MainApp.budget_label: the <<total, budget>> it shows
    firstSecret,  \* history: [username, password] of each username's first successful register
    last          \* the outcome of the handler or call that ran last

vars == <<users, categories, expenses, expense_seq, launches, phase, user_id,
          year_var, month_var, tree, selection, budget_label, firstSecret, last>>

-----------------------------------------------------------------------------
(* Bounds of the model *)

MaxLaunches == 2
MaxExpenseId == 2
MaxUsers == 2
MaxUserCategories == 2

-----------------------------------------------------------------------------
(* Text *)

\* The characters the model uses, in code point order.
Alphabet == <<" ", "+", "-", "/", "0", "1", "2", "3", "4", "5", "6", "7", "8", "9",
              "A", "B", "C", "D", "E", "F", "G", "H", "I", "J", "K", "L", "M",
              "N", "O", "P", "Q", "R", "S", "T", "U", "V", "W", "X", "Y", "Z",
              "a", "b", "c", "d", "e", "f", "g", "h", "i", "j", "k", "l", "m",
              "n", "o", "p", "q", "r", "s", "t", "u", "v", "w", "x", "y", "z">>

\* ord(c), up to the gaps between the characters the model uses.
OrdTable == [c \in {Alphabet[i] : i \in 1..Len(Alphabet)} |->
                CHOOSE i \in 1..Len(Alphabet) : Alphabet[i] = c]

Ord(c) == OrdTable[c]

Digits == <<"0", "1", "2", "3", "4", "5", "6", "7", "8", "9">>

DigitSet == {Digits[i] : i \in 1..Len(Digits)}

IsDigit(c) == c \in DigitSet

DigitVal(c) == Ord(c) - Ord("0")

\* a < b for two texts that agree before position i: the first differing character
\* decides, a proper prefix is smaller.
RECURSIVE TextLessFrom(_, _, _)
TextLessFrom(a, b, i) ==
    IF i > Len(b) THEN FALSE
    ELSE IF i > Len(a) THEN TRUE
    ELSE IF a[i] = b[i] THEN TextLessFrom(a, b, i + 1)
    ELSE Ord(a[i]) < Ord(b[i])

TextLess(a, b) == TextLessFrom(a, b, 1)

TextLeq(a, b) == a = b \/ TextLess(a, b)

\* str.strip(): leading and trailing blanks removed.
Strip(s) ==
    LET nonblank == {i \in 1..Len(s) : s[i] # " "}
    IN  IF nonblank = {} THEN <<>>
        ELSE LET lo == CHOOSE i \in nonblank : \A j \in nonblank : i <= j
                 hi == CHOOSE i \in nonblank : \A j \in nonblank : j <= i
             IN  SubSeq(s, lo, hi)

\* f"{n:02d}" for 0 <= n <= 99 and f"{n:04d}" for 0 <= n <= 9999.
Fmt02d(n) == <<Digits[(n \div 10) + 1], Digits[(n % 10) + 1]>>

Fmt04d(n) == <<Digits[(n \div 1000) + 1], Digits[((n \div 100) % 10) + 1],
               Digits[((n \div 10) % 10) + 1], Digits[(n % 10) + 1]>>

\* The decimal value of a text of digits.
RECURSIVE DecimalVal(_)
DecimalVal(s) ==
    IF s = <<>> THEN 0
    ELSE 10 * DecimalVal(SubSeq(s, 1, Len(s) - 1)) + DigitVal(s[Len(s)])

AllDigits(s) == \A i \in 1..Len(s) : IsDigit(s[i])

\* float(text), for the texts the model enters: blanks around, an optional sign and
\* digits. Anything else raises ValueError (ok = FALSE).
ParseFloat(text) ==
    LET s == Strip(text)
        signed == s # <<>> /\ s[1] \in {"-", "+"}
        body == IF signed THEN Tail(s) ELSE s
    IN  IF body # <<>> /\ AllDigits(body)
        THEN [ok |-> TRUE,
              val |-> IF signed /\ s[1] = "-" THEN 0 - DecimalVal(body) ELSE DecimalVal(body)]
        ELSE [ok |-> FALSE, val |-> 0]

IsLeap(y) == (y % 4 = 0 /\ y % 100 # 0) \/ y % 400 = 0

DaysInMonth(y, m) ==
    IF m = 2 THEN (IF IsLeap(y) THEN 29 ELSE 28)
    ELSE IF m \in {4, 6, 9, 11} THEN 30 ELSE 31

\* The directive %m: 1[0-2] | 0[1-9] | [1-9].
MonthToken(t) ==
    \/ Len(t) = 2 /\ t[1] = "1" /\ t[2] \in {"0", "1", "2"}
    \/ Len(t) = 2 /\ t[1] = "0" /\ IsDigit(t[2]) /\ t[2] # "0"
    \/ Len(t) = 1 /\ IsDigit(t[1]) /\ t[1] # "0"

\* The directive %d: 3[01] | [12]\d | 0[1-9] | [1-9] | " "[1-9].
DayToken(t) ==
    \/ Len(t) = 2 /\ t[1] = "3" /\ t[2] \in {"0", "1"}
    \/ Len(t) = 2 /\ t[1] \in {"1", "2"} /\ IsDigit(t[2])
    \/ Len(t) = 2 /\ t[1] \in {"0", " "} /\ IsDigit(t[2]) /\ t[2] # "0"
    \/ Len(t) = 1 /\ IsDigit(t[1]) /\ t[1] # "0"

\* datetime.strptime(s, '%Y-%m-%d'): four digits, "-", a month token, "-", a day
\* token and nothing more, naming a day of the calendar. ok = FALSE: ValueError.
strptime(s) ==
    LET bad == [ok |-> FALSE, y |-> 0, m |-> 0, d |-> 0]
    IN  IF ~(Len(s) >= 8 /\ AllDigits(SubSeq(s, 1, 4)) /\ s[5] = "-") THEN bad
        ELSE LET k == IF s[7] = "-" THEN 7 ELSE 8
                 mt == SubSeq(s, 6, k - 1)
                 dt == SubSeq(s, k + 1, Len(s))
             IN  IF ~(k <= Len(s) /\ s[k] = "-" /\ MonthToken(mt) /\ DayToken(dt)) THEN bad
                 ELSE LET y == DecimalVal(SubSeq(s, 1, 4))
                          m == DecimalVal(mt)
                          d == DecimalVal(Strip(dt))
                      IN  IF y >= 1 /\ d <= DaysInMonth(y, m)
                          THEN [ok |-> TRUE, y |-> y, m |-> m, d |-> d]
                          ELSE bad

RECURSIVE SumAmounts(_)
SumAmounts(rows) ==
    IF rows = <<>> THEN 0 ELSE rows[1].amount + SumAmounts(Tail(rows))

-----------------------------------------------------------------------------
(* The texts the model enters *)

Food == <<"F", "o", "o", "d">>
Transport == <<"T", "r", "a", "n", "s", "p", "o", "r", "t">>
Shopping == <<"S", "h", "o", "p", "p", "i", "n", "g">>
Bills == <<"B", "i", "l", "l", "s">>
Entertainment == <<"E", "n", "t", "e", "r", "t", "a", "i", "n", "m", "e", "n", "t">>
Other == <<"O", "t", "h", "e", "r">>
Gym == <<"G", "y", "m">>
Blank == <<" ">>
Lunch == <<"l", "u", "n", "c", "h">>

Alice == <<"a", "l", "i", "c", "e">>
Bob == <<"b", "o", "b">>
Pw1 == <<"p", "w", "1">>
Pw2 == <<"p", "w", "2">>

Usernames == {Alice, Bob, <<>>}
Passwords == {Pw1, Pw2, Blank \o Pw1}

Dec31 == <<"2", "0", "2", "4", "-", "1", "2", "-", "3", "1">>
Jan01 == <<"2", "0", "2", "5", "-", "0", "1", "-", "0", "1">>
Mar5Short == <<"2", "0", "2", "4", "-", "3", "-", "5">>
Feb30 == <<"2", "0", "2", "4", "-", "0", "2", "-", "3", "0">>

Fifty == <<"5", "0">>
MinusFive == <<"-", "5">>

\* The forms the model fills in: amount, category, date and description fields.
Form(amount, category, date, description) ==
    [amount |-> amount, category |-> category, date |-> date, description |-> description]

Forms == {Form(Fifty, Food, Dec31, Lunch \o Blank),
          Form(Fifty, Blank, Dec31, <<>>),
          Form(Blank \o Fifty, Food, Jan01, <<>>),
          Form(MinusFive, Food, Dec31, <<>>),
          Form(Fifty, Food, Mar5Short, <<>>),
          Form(<<"a", "b", "c">>, Food, Dec31, <<>>),
          Form(Fifty, Food, Feb30, <<>>)}
CategoryNames == {Food, Gym}
Budgets == {0, 50}

\* What the direct calls of DB's expense methods are given: amount, category,
\* description, date.
CallRows == {<<50, Food, <<>>, Dec31>>,
             <<60, Other, Lunch, Dec31>>,
             <<50, Food, Lunch, Jan01>>,
             <<60, Gym, <<>>, Jan01>>}

\* The (year, month) pairs the summary's spin boxes take, and those the checks look at.
Periods == {<<2024, 12>>, <<2025, 1>>}
AllPeriods == Periods \cup {<<2024, 3>>}

-----------------------------------------------------------------------------
(* class DB *)

\* A NULL user_id.
NULL == 0

defaults == <<Food, Transport, Shopping, Bills, Entertainment, Other>>

\* hashlib.sha256(p.encode()).hexdigest(), its first eight digits, of the passwords
\* the model enters.
sha256(p) ==
    CASE p = Pw1 -> "c592df4a"
      [] p = Pw2 -> "93915a0a"

\* UNIQUE(name, user_id) of categories: SQLite holds two NULLs to be distinct, so a
\* row with a NULL user_id never conflicts.
CategoryConflict(tbl, name, uid) ==
    /\ uid # NULL
    /\ \E i \in 1..Len(tbl) : tbl[i].name = name /\ tbl[i].user_id = uid

\* INSERT INTO categories (name, user_id): ok = FALSE is sqlite3.IntegrityError.
InsertCategory(tbl, name, uid) ==
    IF CategoryConflict(tbl, name, uid)
    THEN [ok |-> FALSE, table |-> tbl]
    ELSE [ok |-> TRUE,
          table |-> Append(tbl, [id |-> Len(tbl) + 1, name |-> name, user_id |-> uid])]

\* The loop of create_tables over defaults[i..], IntegrityError passed over.
RECURSIVE SeedDefaults(_, _)
SeedDefaults(tbl, i) ==
    IF i > Len(defaults) THEN tbl
    ELSE SeedDefaults(InsertCategory(tbl, defaults[i], NULL).table, i + 1)

create_tables(tbl) == SeedDefaults(tbl, 1)

\* INSERT OR REPLACE in place of INSERT: a taken username gets the new password.
add_user_Replace(tbl, username, password) ==
    IF \E i \in 1..Len(tbl) : tbl[i].username = username
    THEN [ok |-> TRUE,
          table |-> [i \in 1..Len(tbl) |->
                        IF tbl[i].username = username
                        THEN [tbl[i] EXCEPT !.password_hash = sha256(password)]
                        ELSE tbl[i]]]
    ELSE [ok |-> TRUE,
          table |-> Append(tbl, [id |-> Len(tbl) + 1, username |-> username,
                                 password_hash |-> sha256(password), budget |-> 0])]

add_user(tbl, username, password) ==
    IF \E i \in 1..Len(tbl) : tbl[i].username = username
    THEN [ok |-> FALSE, table |-> tbl]
    ELSE [ok |-> TRUE,
          table |-> Append(tbl, [id |-> Len(tbl) + 1, username |-> username,
                                 password_hash |-> sha256(password), budget |-> 0])]

\* The rows SELECT * FROM users WHERE username = ? AND password_hash = ? finds;
\* fetchone() is the first of them, None when there is none.
authenticate(tbl, username, password) ==
    SelectSeq(tbl, LAMBDA r : r.username = username /\ r.password_hash = sha256(password))

set_budget(tbl, uid, amount) ==
    [i \in 1..Len(tbl) |-> IF tbl[i].id = uid THEN [tbl[i] EXCEPT !.budget = amount]
                           ELSE tbl[i]]

get_budget(tbl, uid) ==
    LET rows == SelectSeq(tbl, LAMBDA r : r.id = uid)
    IN  IF rows = <<>> THEN 0 ELSE rows[1].budget

add_category(tbl, name, uid) == InsertCategory(tbl, name, uid)

NameBefore(r1, r2) == TextLess(r1.name, r2.name)

\* ORDER BY name: rows of the same name keep the order of the scan.
OrderByName(s) ==
    LET pos(i) == 1 + Cardinality({j \in 1..Len(s) :
                        NameBefore(s[j], s[i]) \/ (~NameBefore(s[i], s[j]) /\ j < i)})
    IN  [k \in 1..Len(s) |-> s[CHOOSE i \in 1..Len(s) : pos(i) = k]]

get_categories(tbl, uid) ==
    LET rows == SelectSeq(tbl, LAMBDA r : r.user_id = NULL \/ (uid # NULL /\ r.user_id = uid))
        sorted == OrderByName(rows)
    IN  [i \in 1..Len(sorted) |-> sorted[i].name]

DB_add_expense(tbl, seq, uid, amount, category, description, date) ==
    Append(tbl, [id |-> seq + 1, user_id |-> uid, amount |-> amount,
                 category |-> category, description |-> description, date |-> date])

\* The UPDATE without its WHERE id=?.
DB_update_expense_NoWhere(tbl, exp_id, amount, category, description, date) ==
    [i \in 1..Len(tbl) |->
        [tbl[i] EXCEPT !.amount = amount, !.category = category,
                       !.description = description, !.date = date]]

DB_update_expense(tbl, exp_id, amount, category, description, date) ==
    [i \in 1..Len(tbl) |->
        IF tbl[i].id = exp_id
        THEN [tbl[i] EXCEPT !.amount = amount, !.category = category,
                            !.description = description, !.date = date]
        ELSE tbl[i]]

DB_delete_expense(tbl, exp_id) == SelectSeq(tbl, LAMBDA r : r.id # exp_id)

DateAfter(r1, r2) == TextLess(r2.date, r1.date)

\* ORDER BY date DESC: rows of the same date keep the order of the scan.
OrderByDateDesc(s) ==
    LET pos(i) == 1 + Cardinality({j \in 1..Len(s) :
                        DateAfter(s[j], s[i]) \/ (~DateAfter(s[i], s[j]) /\ j < i)})
    IN  [k \in 1..Len(s) |-> s[CHOOSE i \in 1..Len(s) : pos(i) = k]]

get_expenses(tbl, uid) ==
    OrderByDateDesc(SelectSeq(tbl, LAMBDA r : r.user_id = uid))

\* start and end of the month's range, as get_monthly_total and
\* get_category_summary format them.
PeriodStart(year, month) == Fmt04d(year) \o <<"-">> \o Fmt02d(month) \o <<"-", "0", "1">>

PeriodEnd(year, month) ==
    IF month = 12 THEN Fmt04d(year + 1) \o <<"-", "0", "1", "-", "0", "1">>
    ELSE Fmt04d(year) \o <<"-">> \o Fmt02d(month + 1) \o <<"-", "0", "1">>

\* WHERE user_id=? AND date>=? AND date<?
InPeriod(r, uid, start, end) ==
    /\ r.user_id = uid
    /\ TextLeq(start, r.date)
    /\ TextLess(r.date, end)

get_monthly_total_ClosedRange(tbl, uid, year, month) ==
    LET start == PeriodStart(year, month)
        end == PeriodEnd(year, month)
    IN  SumAmounts(SelectSeq(tbl, LAMBDA r : r.user_id = uid /\ TextLeq(start, r.date)
                                              /\ TextLeq(r.date, end)))

get_monthly_total(tbl, uid, year, month) ==
    LET start == PeriodStart(year, month)
        end == PeriodEnd(year, month)
    IN  SumAmounts(SelectSeq(tbl, LAMBDA r : InPeriod(r, uid, start, end)))

\* GROUP BY category: one row for each category of the rows in the range, here a
\* function from the category to its total.
get_category_summary(tbl, uid, year, month) ==
    LET start == PeriodStart(year, month)
        end == PeriodEnd(year, month)
        rows == SelectSeq(tbl, LAMBDA r : InPeriod(r, uid, start, end))
    IN  [c \in {rows[i].category : i \in 1..Len(rows)} |->
            SumAmounts(SelectSeq(rows, LAMBDA r : r.category = c))]

-----------------------------------------------------------------------------
(* The outcome of the handler that ran last, kept for the handlers the checks     *)
(* read: whether it went through (ok), whether it showed the budget warning       *)
(* (warned) and what it was given. The other handlers leave NoOutcome.            *)

NoOutcome == [op |-> "none", ok |-> TRUE, warned |-> FALSE, id |-> 0, value |-> 0,
              amount |-> <<>>, category |-> <<>>, description |-> <<>>, date |-> <<>>,
              username |-> <<>>, password |-> <<>>]

FormOutcome(op, ok, id, form) ==
    [NoOutcome EXCEPT !.op = op, !.ok = ok, !.id = id, !.amount = form.amount,
                      !.category = form.category, !.description = form.description,
                      !.date = form.date]

CredentialOutcome(op, ok, username, password) ==
    [NoOutcome EXCEPT !.op = op, !.ok = ok, !.username = username, !.password = password]

-----------------------------------------------------------------------------
(* The program's start *)

\* The store as DB() leaves a new file, and the login window.
InitFresh ==
    /\ users = <<>>
    /\ categories = create_tables(<<>>)
    /\ expenses = <<>>
    /\ expense_seq = 0
    /\ launches = 1
    /\ phase = "login"
    /\ user_id = 0
    /\ year_var = 0
    /\ month_var = 0
    /\ tree = <<>>
    /\ selection = 0
    /\ budget_label = <<0, 0>>
    /\ firstSecret = {}
    /\ last = NoOutcome

\* The same after alice and bob have registered.
Init ==
    /\ users = add_user(add_user(<<>>, Alice, Pw1).table, Bob, Pw2).table
    /\ categories = create_tables(<<>>)
    /\ expenses = <<>>
    /\ expense_seq = 0
    /\ launches = 1
    /\ phase = "login"
    /\ user_id = 0
    /\ year_var = 0
    /\ month_var = 0
    /\ tree = <<>>
    /\ selection = 0
    /\ budget_label = <<0, 0>>
    /\ firstSecret = {[username |-> Alice, password |-> Pw1],
                      [username |-> Bob, password |-> Pw2]}
    /\ last = NoOutcome

\* The program is closed and started again: DB() runs create_tables on the store
\* and the login window is shown.
Launch ==
    /\ launches < MaxLaunches
    /\ launches' = launches + 1
    /\ categories' = create_tables(categories)
    /\ phase' = "login"
    /\ user_id' = 0
    /\ year_var' = 0
    /\ month_var' = 0
    /\ tree' = <<>>
    /\ selection' = 0
    /\ budget_label' = <<0, 0>>
    /\ last' = NoOutcome
    /\ UNCHANGED <<users, expenses, expense_seq, firstSecret>>

-----------------------------------------------------------------------------
(* class LoginWindow *)

Register ==
    \E ut \in Usernames, pt \in Passwords :
        LET u == Strip(ut)
            p == Strip(pt)
        IN  /\ phase = "login"
            /\ IF u = <<>> \/ p = <<>>
               THEN /\ last' = CredentialOutcome("register", FALSE, ut, pt)
                    /\ UNCHANGED <<users, firstSecret>>
               ELSE LET r == add_user(users, u, p)
                    IN  /\ Len(r.table) <= MaxUsers
                        /\ users' = r.table
                        /\ firstSecret' =
                              IF r.ok /\ ~(\E e \in firstSecret : e.username = u)
                              THEN firstSecret \cup {[username |-> u, password |-> p]}
                              ELSE firstSecret
                        /\ last' = CredentialOutcome("register", r.ok, ut, pt)
            /\ UNCHANGED <<categories, expenses, expense_seq, launches, phase, user_id,
                           year_var, month_var, tree, selection, budget_label>>

\* A tree filled from the whole expenses table, whoever owns the row.
TreeOf_AllUsers(tbl, uid) == [i \in 1..Len(tbl) |-> tbl[i].id]

\* MainApp.refresh_expenses: the tree's rows are those of get_expenses.
TreeOf(tbl, uid) ==
    LET rows == get_expenses(tbl, uid)
    IN  [i \in 1..Len(rows) |-> rows[i].id]

\* MainApp.draw_summary: the label shows the month's total and the budget.
LabelOf(utbl, etbl, uid, year, month) ==
    <<get_monthly_total(etbl, uid, year, month), get_budget(utbl, uid)>>

Login ==
    \E ut \in Usernames, pt \in Passwords, now \in Periods :
        LET u == Strip(ut)
            p == Strip(pt)
            found == IF u = <<>> \/ p = <<>> THEN <<>> ELSE authenticate(users, u, p)
        IN  /\ phase = "login"
            /\ IF found = <<>>
               THEN /\ last' = [NoOutcome EXCEPT !.op = "login", !.ok = FALSE]
                    /\ UNCHANGED <<phase, user_id, year_var, month_var, tree, selection,
                                   budget_label>>
               ELSE /\ phase' = "main"
                    /\ user_id' = found[1].id
                    /\ year_var' = now[1]
                    /\ month_var' = now[2]
                    /\ tree' = TreeOf(expenses, found[1].id)
                    /\ selection' = 0
                    /\ budget_label' = LabelOf(users, expenses, found[1].id, now[1], now[2])
                    /\ last' = NoOutcome
            /\ UNCHANGED <<users, categories, expenses, expense_seq, launches, firstSecret>>

-----------------------------------------------------------------------------
(* class MainApp *)

BudgetExceeded_AtLimit(total, budget) == budget > 0 /\ total >= budget

\* The budget alert's condition in MainApp.add_expense.
BudgetExceeded(total, budget) == budget > 0 /\ total > budget

\* What add_expense and update_selected read from the form: ok = FALSE when one of
\* the two error boxes is shown.
ParseForm(amount_text, category_text, date_text, description_text) ==
    LET amt == ParseFloat(amount_text)
        cat == IF Strip(category_text) = <<>> THEN Other ELSE Strip(category_text)
        date == Strip(date_text)
    IN  [ok |-> amt.ok /\ strptime(date).ok, amount |-> amt.val, category |-> cat,
         date |-> date, description |-> Strip(description_text)]

\* ParseForm of every form the model fills in, worked out once.
FormTable == [form \in Forms |->
                 ParseForm(form.amount, form.category, form.date, form.description)]

ReadForm(form) == FormTable[form]

\* A click on a row of the tree.
on_select ==
    \E i \in 1..Len(tree) :
        /\ phase = "main"
        /\ selection' = tree[i]
        /\ last' = NoOutcome
        /\ UNCHANGED <<users, categories, expenses, expense_seq, launches, phase, user_id,
                       year_var, month_var, tree, budget_label, firstSecret>>

\* The year or month spin box is changed: its command is draw_summary.
SetPeriod ==
    \E per \in Periods :
        /\ phase = "main"
        /\ year_var' = per[1]
        /\ month_var' = per[2]
        /\ budget_label' = LabelOf(users, expenses, user_id, per[1], per[2])
        /\ last' = NoOutcome
        /\ UNCHANGED <<users, categories, expenses, expense_seq, launches, phase, user_id,
                       tree, selection, firstSecret>>

MainApp_set_budget ==
    \E val \in Budgets :
        /\ phase = "main"
        /\ users' = set_budget(users, user_id, val)
        /\ budget_label' = LabelOf(users', expenses, user_id, year_var, month_var)
        /\ last' = NoOutcome
        /\ UNCHANGED <<categories, expenses, expense_seq, launches, phase, user_id,
                       year_var, month_var, tree, selection, firstSecret>>

UserCategoryRows(tbl) == Len(SelectSeq(tbl, LAMBDA r : r.user_id # NULL))

MainApp_add_category ==
    \E name \in CategoryNames \cup {<<>>} :
        /\ phase = "main"
        /\ IF name = <<>>
           THEN /\ last' = [NoOutcome EXCEPT !.op = "add_category", !.ok = FALSE]
                /\ UNCHANGED categories
           ELSE LET r == add_category(categories, Strip(name), user_id)
                IN  /\ UserCategoryRows(r.table) <= MaxUserCategories
                    /\ categories' = r.table
                    /\ last' = [NoOutcome EXCEPT !.op = "add_category", !.ok = r.ok,
                                                 !.category = name]
        /\ UNCHANGED <<users, expenses, expense_seq, launches, phase, user_id, year_var,
                       month_var, tree, selection, budget_label, firstSecret>>

MainApp_add_expense ==
    \E form \in Forms :
        LET f == ReadForm(form)
        IN  /\ phase = "main"
            /\ expense_seq < MaxExpenseId
            /\ IF ~f.ok
               THEN /\ last' = [NoOutcome EXCEPT !.op = "add_expense", !.ok = FALSE]
                    /\ UNCHANGED <<expenses, expense_seq, tree, selection, budget_label>>
               ELSE /\ expenses' = DB_add_expense(expenses, expense_seq, user_id, f.amount,
                                                  f.category, f.description, f.date)
                    /\ expense_seq' = expense_seq + 1
                    /\ tree' = TreeOf(expenses', user_id)
                    /\ selection' = 0
                    /\ budget_label' = LabelOf(users, expenses', user_id, year_var, month_var)
                    /\ last' = [FormOutcome("add_expense", TRUE, expense_seq + 1, form)
                                    EXCEPT !.value = f.amount,
                                           !.warned = BudgetExceeded(
                                               get_monthly_total(expenses', user_id,
                                                                 year_var, month_var),
                                               get_budget(users, user_id))]
            /\ UNCHANGED <<users, categories, launches, phase, user_id, year_var, month_var,
                           firstSecret>>

MainApp_update_selected ==
    \E form \in Forms :
        LET f == ReadForm(form)
        IN  /\ phase = "main"
            /\ IF selection = 0 \/ ~f.ok
               THEN /\ last' = [NoOutcome EXCEPT !.op = "update_selected", !.ok = FALSE]
                    /\ UNCHANGED <<expenses, tree, selection, budget_label>>
               ELSE /\ expenses' = DB_update_expense(expenses, selection, f.amount,
                                                     f.category, f.description, f.date)
                    /\ tree' = TreeOf(expenses', user_id)
                    /\ selection' = 0
                    /\ budget_label' = LabelOf(users, expenses', user_id, year_var, month_var)
                    /\ last' = [FormOutcome("update_selected", TRUE, selection, form)
                                    EXCEPT !.value = f.amount]
            /\ UNCHANGED <<users, categories, expense_seq, launches, phase, user_id,
                           year_var, month_var, firstSecret>>

MainApp_delete_selected ==
    \E confirmed \in BOOLEAN :
        /\ phase = "main"
        /\ IF selection = 0 \/ ~confirmed
           THEN /\ last' = [NoOutcome EXCEPT !.op = "delete_selected", !.ok = FALSE]
                /\ UNCHANGED <<expenses, tree, selection, budget_label>>
           ELSE /\ expenses' = DB_delete_expense(expenses, selection)
                /\ tree' = TreeOf(expenses', user_id)
                /\ selection' = 0
                /\ budget_label' = LabelOf(users, expenses', user_id, year_var, month_var)
                /\ last' = [NoOutcome EXCEPT !.op = "delete_selected", !.id = selection]
        /\ UNCHANGED <<users, categories, expense_seq, launches, phase, user_id,
                       year_var, month_var, firstSecret>>

-----------------------------------------------------------------------------
(* Specifications *)

\* The ledger behind the two windows: sessions of the registered users.
Next ==
    \/ Launch
    \/ Login
    \/ on_select
    \/ SetPeriod
    \/ MainApp_set_budget
    \/ MainApp_add_expense
    \/ MainApp_update_selected
    \/ MainApp_delete_selected

Spec == Init /\ [][Next]_vars

\* The credential store, from a new file.
NextAuth == Launch \/ Register \/ Login

SpecAuth == InitFresh /\ [][NextAuth]_vars

\* The category registry.
NextCat == Launch \/ Login \/ MainApp_add_category

SpecCat == Init /\ [][NextCat]_vars

\* DB's expense methods called directly, with any record id.
Call_add_expense ==
    \E uid \in 1..MaxUsers, row \in CallRows :
        /\ expense_seq < MaxExpenseId
        /\ expenses' = DB_add_expense(expenses, expense_seq, uid, row[1], row[2], row[3], row[4])
        /\ expense_seq' = expense_seq + 1
        /\ last' = [NoOutcome EXCEPT !.op = "DB.add_expense", !.id = expense_seq + 1]
        /\ UNCHANGED <<users, categories, launches, phase, user_id, year_var, month_var,
                       tree, selection, budget_label, firstSecret>>

Call_update_expense ==
    \E exp_id \in 1..MaxExpenseId, row \in CallRows :
        /\ expenses' = DB_update_expense(expenses, exp_id, row[1], row[2], row[3], row[4])
        \* update_expense returns None and raises nothing, whatever the id
        /\ last' = [NoOutcome EXCEPT !.op = "DB.update_expense", !.ok = TRUE, !.id = exp_id,
                                     !.value = row[1], !.category = row[2],
                                     !.description = row[3], !.date = row[4]]
        /\ UNCHANGED <<users, categories, expense_seq, launches, phase, user_id, year_var,
                       month_var, tree, selection, budget_label, firstSecret>>

Call_delete_expense ==
    \E exp_id \in 1..MaxExpenseId :
        /\ expenses' = DB_delete_expense(expenses, exp_id)
        /\ last' = [NoOutcome EXCEPT !.op = "DB.delete_expense", !.id = exp_id]
        /\ UNCHANGED <<users, categories, expense_seq, launches, phase, user_id, year_var,
                       month_var, tree, selection, budget_label, firstSecret>>

NextDB == Call_add_expense \/ Call_update_expense \/ Call_delete_expense

SpecDB == Init /\ [][NextDB]_vars

-----------------------------------------------------------------------------
(* Checks *)

UserIds == 1..MaxUsers

RowSet(rows) == {rows[i] : i \in 1..Len(rows)}

RECURSIVE SumValues(_, _)
SumValues(f, S) ==
    IF S = {} THEN 0
    ELSE LET c == CHOOSE x \in S : TRUE
         IN  f[c] + SumValues(f, S \ {c})

\* The category add_expense is to store for a category field: the field without
\* the blanks around it, "Other" when nothing is left.
GivenCategory(text) == IF Strip(text) = <<>> THEN Other ELSE Strip(text)

\* The month after (year, month).
NextMonth(year, month) == IF month = 12 THEN <<year + 1, 1>> ELSE <<year, month + 1>>

\* Calendar day <<y1, m1, d1>> is before <<y2, m2, d2>>.
DayBefore(a, b) ==
    \/ a[1] < b[1]
    \/ a[1] = b[1] /\ a[2] < b[2]
    \/ a[1] = b[1] /\ a[2] = b[2] /\ a[3] < b[3]

\* The day a record's date names lies in [first day of (year, month), first day of
\* the next month).
DateInMonth(date, year, month) ==
    LET d == strptime(date)
        day == <<d.y, d.m, d.d>>
        nxt == NextMonth(year, month)
    IN  /\ d.ok
        /\ ~DayBefore(day, <<year, month, 1>>)
        /\ DayBefore(day, <<nxt[1], nxt[2], 1>>)

AddAccepted == last.op = "add_expense" /\ last.ok

(* C1: an add that is accepted puts exactly one new record in the user's list,    *)
(* with the given amount, category, description and date, and raises the          *)
(* monthly total of the (year, month) of that date by exactly the amount.         *)
C1_AddThenListAndTotal ==
    [][AddAccepted' =>
        LET before == RowSet(get_expenses(expenses, user_id))
            after == RowSet(get_expenses(expenses', user_id))
            amount == ParseFloat(last'.amount).val
            d == strptime(Strip(last'.date))
        IN  /\ before \subseteq after
            /\ Cardinality(after \ before) = 1
            /\ \A r \in after \ before :
                  /\ r.amount = amount
                  /\ r.category = GivenCategory(last'.category)
                  /\ r.description = Strip(last'.description)
                  /\ r.date = Strip(last'.date)
            /\ get_monthly_total(expenses', user_id, d.y, d.m)
                 = get_monthly_total(expenses, user_id, d.y, d.m) + amount]_vars

C3_MonthlyTotalByCalendar ==
    \A uid \in UserIds, per \in AllPeriods :
        get_monthly_total(expenses, uid, per[1], per[2])
          = SumAmounts(SelectSeq(expenses,
                LAMBDA r : r.user_id = uid /\ DateInMonth(r.date, per[1], per[2])))

(* C4: add_expense shows the budget warning exactly when the budget is above 0    *)
(* and the active month's total is above the budget: never with a budget of 0,    *)
(* and not when the total equals the budget.                                      *)
C4_BudgetAlert ==
    AddAccepted =>
        LET total == get_monthly_total(expenses, user_id, year_var, month_var)
            budget == get_budget(users, user_id)
        IN  /\ last.warned <=> (budget > 0 /\ total > budget)
            /\ budget = 0 => ~last.warned
            /\ total = budget => ~last.warned

\* An add that brought the month's total exactly to a budget above 0.
C4_Witness ==
    /\ AddAccepted
    /\ get_budget(users, user_id) > 0
    /\ get_monthly_total(expenses, user_id, year_var, month_var) = get_budget(users, user_id)
    /\ ~last.warned

\* LoginWindow.register got a username and a password, and called add_user.
RegisterCalled == last.op = "register" /\ Strip(last.username) # <<>> /\ Strip(last.password) # <<>>

\* authenticate finds a user exactly for the password of the username's first
\* successful register.
AuthenticateFirstSecret ==
    \A u \in {Alice, Bob}, pw \in {Pw1, Pw2} :
        LET found == authenticate(users, u, pw)
        IN  IF [username |-> u, password |-> pw] \in firstSecret
            THEN found # <<>> /\ found[1].username = u
            ELSE found = <<>>

(* C5: register returns false and leaves the users as they are when the username  *)
(* is taken, and otherwise returns true and adds one user with that username, the *)
(* hash of the password and budget 0; so authenticate returns a user exactly for  *)
(* the password of the username's first successful register.                      *)
C5_RegisterAndAuthenticate ==
    [][/\ RegisterCalled' =>
            LET u == Strip(last'.username)
                p == Strip(last'.password)
            IN  IF \E i \in 1..Len(users) : users[i].username = u
                THEN ~last'.ok /\ users' = users
                ELSE /\ last'.ok
                     /\ Len(users') = Len(users) + 1
                     /\ SubSeq(users', 1, Len(users)) = users
                     /\ users'[Len(users')].username = u
                     /\ users'[Len(users')].password_hash = sha256(p)
                     /\ users'[Len(users')].budget = 0
       /\ AuthenticateFirstSecret']_vars

\* A register of a taken username with another password than its first was refused.
C5_Witness ==
    /\ RegisterCalled
    /\ ~last.ok
    /\ \E e \in firstSecret :
          /\ e.username = Strip(last.username)
          /\ e.password # Strip(last.password)
          /\ authenticate(users, e.username, e.password) # <<>>

GlobalRows(name) ==
    {j \in 1..Len(categories) : categories[j].name = name /\ categories[j].user_id = NULL}

(* C6: create_tables run again leaves the categories as they were: each of the    *)
(* six default categories is there exactly once, and no two rows have the same    *)
(* name and owner.                                                                *)
C6_InitializeIdempotent ==
    [][/\ launches' # launches => categories' = categories
       /\ \A i \in 1..Len(defaults) : Cardinality(GlobalRows(defaults[i])') = 1
       /\ \A j, k \in 1..Len(categories') :
             (/\ categories'[j].name = categories'[k].name
              /\ categories'[j].user_id = categories'[k].user_id) => j = k]_vars

\* The names of the global categories and of those uid owns.
VisibleNames(uid) ==
    {r.name : r \in {x \in RowSet(categories) : x.user_id = NULL \/ x.user_id = uid}}

(* C7: get_categories(user) is the names of the global categories and of the      *)
(* user's own, in alphabetical order, no name twice, the six defaults among them. *)
(* Stated for a store that create_tables has run on once.                         *)
C7_ListCategories ==
    launches = 1 =>
        \A uid \in UserIds :
            LET names == get_categories(categories, uid)
            IN  /\ {names[i] : i \in 1..Len(names)} = VisibleNames(uid)
                /\ \A i, j \in 1..Len(names) : i < j => TextLess(names[i], names[j])
                /\ \A i \in 1..Len(defaults) : \E j \in 1..Len(names) : names[j] = defaults[i]

\* float(text) is a number that is 0 or more.
NonNegativeNumber(text) == ParseFloat(text).ok /\ ParseFloat(text).val >= 0

\* YYYY-MM-DD, a day of the calendar.
IsIsoDate(text) ==
    /\ Len(text) = 10
    /\ \A i \in {1, 2, 3, 4, 6, 7, 9, 10} : IsDigit(text[i])
    /\ text[5] = "-" /\ text[8] = "-"
    /\ LET y == DecimalVal(SubSeq(text, 1, 4))
           m == DecimalVal(SubSeq(text, 6, 7))
           d == DecimalVal(SubSeq(text, 9, 10))
       IN  y >= 1 /\ m \in 1..12 /\ d \in 1..DaysInMonth(y, m)

(* C8: add_expense accepts only an amount that is a number of 0 or more and a     *)
(* date in ISO form, and an add it rejects leaves the records and every monthly   *)
(* total as they were.                                                            *)
C8_AddRejectsInvalid ==
    [][last'.op = "add_expense" =>
        /\ last'.ok => NonNegativeNumber(last'.amount) /\ IsIsoDate(Strip(last'.date))
        /\ ~last'.ok =>
              /\ expenses' = expenses
              /\ \A uid \in UserIds, per \in AllPeriods :
                    get_monthly_total(expenses', uid, per[1], per[2])
                      = get_monthly_total(expenses, uid, per[1], per[2])]_vars

UpdateCalled == last.op = "DB.update_expense"

ExpenseIds(tbl) == {tbl[i].id : i \in 1..Len(tbl)}

\* update_expense(last'.id, ...) replaced the four fields of the record with that
\* id and changed nothing else.
UpdateReplaced ==
    /\ Len(expenses') = Len(expenses)
    /\ \A i \in 1..Len(expenses) :
          IF expenses[i].id = last'.id
          THEN expenses'[i] = [expenses[i] EXCEPT !.amount = last'.value,
                                                  !.category = last'.category,
                                                  !.description = last'.description,
                                                  !.date = last'.date]
          ELSE expenses'[i] = expenses[i]

LedgerChanged ==
    /\ last.op \in {"add_expense", "update_selected", "delete_selected"}
    /\ last.ok

(* C10: after an add, update or delete of an expense the summary shows the active *)
(* month's fresh total, and the budget warning is shown whenever that total is    *)
(* above a budget that is above 0.                                                *)
C10_WarningAfterEveryMutation ==
    LedgerChanged =>
        LET total == get_monthly_total(expenses, user_id, year_var, month_var)
            budget == get_budget(users, user_id)
        IN  /\ budget_label = <<total, budget>>
            /\ (budget > 0 /\ total > budget) => last.warned

\* What user v sees of the ledger tbl: the expense list, and the total and the
\* breakdown of every month.
ViewOf(tbl, v) ==
    [list |-> get_expenses(tbl, v),
     totals |-> [per \in AllPeriods |-> get_monthly_total(tbl, v, per[1], per[2])],
     breakdowns |-> [per \in AllPeriods |-> get_category_summary(tbl, v, per[1], per[2])]]

\* A step of the main window of user_id that has changed the ledger.
MainWindowMutation ==
    /\ phase = "main"
    /\ expenses' # expenses

(* C11: an add, update-selected or delete-selected in the main window of the      *)
(* logged-in user creates, changes and removes only records owned by that user:   *)
(* the id passed to update and delete is in the tree, the tree holds only the     *)
(* user's own records, and the expense list, the monthly totals and the category  *)
(* breakdowns of every other user are left as they were.                          *)
C11_OnlyOwnRecords ==
    [][MainWindowMutation =>
          /\ \A r \in (RowSet(expenses') \ RowSet(expenses)) \cup
                       (RowSet(expenses) \ RowSet(expenses')) : r.user_id = user_id
          /\ \A i \in 1..Len(tree) :
                 \E r \in RowSet(expenses) : r.id = tree[i] /\ r.user_id = user_id
          /\ \A v \in UserIds \ {user_id} : ViewOf(expenses', v) = ViewOf(expenses, v)]_vars

\* A record of the logged-in user has been updated or deleted through the tree
\* while the ledger holds a record of another user.
C11_Witness ==
    /\ phase = "main"
    /\ last.op \in {"update_selected", "delete_selected"}
    /\ last.ok
    /\ last.id # 0
    /\ \E r \in RowSet(expenses) : r.user_id # user_id

=============================================================================
